---- MODULE Spec2Model ----
(***************************************************************************)
(* Smart-Home-IOT backend (backend_main.py, src/database.py, config.py):   *)
(* the ingestion / automatic-control / command core of SmartHomeBackend.   *)
(*                                                                         *)
(* Spec      handlers run one at a time (requests that do not overlap).    *)
(* RateSpec  ingestions against a one-second clock (the telemetry gate).   *)
(* CmdSpec   the command paths alone (POST /control and MQTT messages),     *)
(*           with the full sets of action strings, topics and payloads.    *)
(* ConcSpec  two HTTP request threads running POST /sensor statement by    *)
(*           statement (Flask serves each request on its own thread and    *)
(*           the backend takes no lock), both inside one second.           *)
(*                                                                         *)
(* Readings are integers; the thresholds 28.0, 35.0 and 70.0 of config.py  *)
(* are compared as 28, 35 and 70.  A field that is absent from the JSON    *)
(* body is Python's None, written NONE.                                    *)
(***************************************************************************)
EXTENDS Integers, Sequences, FiniteSets, TLC

\* ---------------------------------------------------------------- constants
NONE == -999                 \* dict.get() of an absent key: None

T_high == 28                 \* config.THRESHOLDS["temperature_high"]
T_critical == 35             \* config.THRESHOLDS["temperature_critical"]
H_high == 70                 \* config.THRESHOLDS["humidity_high"]
L_threshold == 300           \* config.THRESHOLDS["light_threshold"]
ThingspeakInterval == 20     \* the literal 20 of update_sensor_data
ApiKeyConfigured == TRUE     \* config.THINGSPEAK_API_KEY is not the placeholder

\* ------------------------------------------------------------------- bounds
MaxSteps == 3                \* operations in one run of Spec
StartTime == 100             \* time.time() when the process starts (epoch seconds, far above 20)
MaxElapsed == 20             \* seconds the clock may advance in Spec
MaxRateElapsed == 21         \* seconds the clock may advance in RateSpec
MaxRateCalls == 4            \* ingestions in one run of RateSpec
MaxCmdSteps == 4             \* operations in one run of CmdSpec
MaxLifeSteps == 4            \* operations in one run of LifeSpec
MaxTwinSteps == 4            \* operations in one run of TwinSpec
MaxLinkSteps == 3       \* connection callbacks and messages in a LinkSpec run

Temperatures == {NONE, 28, 30, 40}
Humidities == {50, 80}
Lights == {NONE, 100, 300, 500}
Actuators == {"fan", "light"}
ActionStrings == {"on", "off", "toggle"}
TickSteps == {20}
RateTickSteps == {1}
RateReadings == {<<20, 50, 500>>}
ConcReadings == {<<40, 80, 100>>, <<20, 50, 500>>, <<30, 50, NONE>>}
Threads == {1, 2}
CmdActuators == {"light", "buzzer"}
CmdActionStrings == {"on", "off", "ON", "toggle", "on ", ""}

VARIABLES
    sensor_data,        \* self.sensor_data
    actuator_states,    \* self.actuator_states
    mqtt_connected,     \* self.mqtt_connected
    last_thingspeak,    \* self.last_thingspeak
    sensor_readings,    \* table sensor_readings
    actuator_events,    \* table actuator_events
    alerts,             \* table alerts
    published,          \* messages handed to mqtt_client.publish
    telemetry,          \* requests sent to ThingSpeak
    now,                \* time.time()
    db_available,       \* whether the sqlite connection accepts a write
    cloud_ok,           \* whether a ThingSpeak request is answered 200 in time
    mqtt_loop,          \* the MQTT client's receive loop (loop_start / loop_stop)
    teardown,           \* the calls cleanup has made, in order
    twin,               \* TwinSpec: a second run fed the same requests
    session,            \* the connection callback that ran last, and the broker's subscription
    last,               \* the operation that ran last, with the state it started from
    prev,               \* the operation before it
    steps,              \* operations run so far
    pc,                 \* ConcSpec: statement each request thread is at
    req,                \* ConcSpec: the reading each request thread carries
    loc                 \* ConcSpec: locals of each request thread

core == <<sensor_data, actuator_states, last_thingspeak, sensor_readings,
          actuator_events, alerts, published, telemetry>>
conc == <<pc, req, loc>>
hist == <<last, prev, steps>>
life == <<cloud_ok, mqtt_loop, teardown, twin, session>>
vars == <<sensor_data, actuator_states, mqtt_connected, last_thingspeak,
          sensor_readings, actuator_events, alerts, published, telemetry,
          now, db_available, cloud_ok, mqtt_loop, teardown, twin, session,
          last, prev, steps, pc, req, loc>>

\* ------------------------------------------------------------ the core state
World ==
    [sensor_data |-> sensor_data, actuator_states |-> actuator_states,
     last_thingspeak |-> last_thingspeak, sensor_readings |-> sensor_readings,
     actuator_events |-> actuator_events, alerts |-> alerts,
     published |-> published, telemetry |-> telemetry,
     mqtt_connected |-> mqtt_connected]

Commit(w) ==
    /\ sensor_data' = w.sensor_data
    /\ actuator_states' = w.actuator_states
    /\ last_thingspeak' = w.last_thingspeak
    /\ sensor_readings' = w.sensor_readings
    /\ actuator_events' = w.actuator_events
    /\ alerts' = w.alerts
    /\ published' = w.published
    /\ telemetry' = w.telemetry

OnOff(b) == IF b THEN "on" ELSE "off"

\* ------------------------------------------------------------------ storage
save_sensor_reading(w, t, h, l) ==
    IF db_available
    THEN [w EXCEPT !.sensor_readings =
            Append(@, [timestamp |-> now, temperature |-> t,
                       humidity |-> h, light_level |-> l])]
    ELSE w

save_actuator_event_when_connected(w, actuator_type, action, auto_triggered) ==
    IF db_available /\ w.mqtt_connected      \* saved under `if self.mqtt_connected`
    THEN [w EXCEPT !.actuator_events =
            Append(@, [actuator_type |-> actuator_type, action |-> action,
                       value |-> NONE, auto_triggered |-> auto_triggered])]
    ELSE w

save_actuator_event(w, actuator_type, action, auto_triggered) ==
    IF db_available
    THEN [w EXCEPT !.actuator_events =
            Append(@, [actuator_type |-> actuator_type, action |-> action,
                       value |-> NONE, auto_triggered |-> auto_triggered])]
    ELSE w

save_alert(w, alert_type, value) ==
    IF db_available
    THEN [w EXCEPT !.alerts =
            Append(@, [alert_type |-> alert_type, value |-> value,
                       acknowledged |-> FALSE])]
    ELSE w

\* ------------------------------------------------------------------- egress
Msg(topic, state, source, reason, value) ==
    [topic |-> topic, state |-> state, source |-> source,
     reason |-> reason, value |-> value]

publish_mqtt_unguarded(w, m) ==      \* sends whatever the connection state
    [w EXCEPT !.published = Append(@, m)]

publish_mqtt(w, m) ==
    IF ~w.mqtt_connected THEN w
    ELSE [w EXCEPT !.published = Append(@, m)]

publish_to_thingspeak(w) ==
    IF ~ApiKeyConfigured THEN w
    ELSE [w EXCEPT !.telemetry =
            Append(@, [at |-> now, delivered |-> cloud_ok,
                       field1 |-> w.sensor_data.temperature,
                       field2 |-> w.sensor_data.humidity,
                       field3 |-> w.sensor_data.light_level,
                       field4 |-> IF w.actuator_states.fan THEN 1 ELSE 0])]

\* ------------------------------------------------------ update_sensor_data
RateLimitOpenStrict(current_time, lastFire) ==    \* `>` for `>=`
    current_time - lastFire > ThingspeakInterval

RateLimitOpen(current_time, lastFire) ==
    current_time - lastFire >= ThingspeakInterval

snapshot_merged(old, t, h, l) ==      \* an absent field keeps its earlier value
    [temperature |-> IF t = NONE THEN old.temperature ELSE t,
     humidity |-> IF h = NONE THEN old.humidity ELSE h,
     light_level |-> IF l = NONE THEN old.light_level ELSE l,
     timestamp |-> now]

snapshot(old, t, h, l) ==    \* lines 262-267: a new dictionary
    [temperature |-> t, humidity |-> h, light_level |-> l, timestamp |-> now]

send_telemetry_stamp_delivered(w) ==  \* the window is consumed only by a delivery
    IF cloud_ok THEN [publish_to_thingspeak(w) EXCEPT !.last_thingspeak = now]
    ELSE publish_to_thingspeak(w)

send_telemetry(w) ==         \* lines 286-287
    [publish_to_thingspeak(w) EXCEPT !.last_thingspeak = now]

update_sensor_data(w, t, h, l) ==
    LET w1 == [w EXCEPT !.sensor_data = snapshot(@, t, h, l)]
        w2 == save_sensor_reading(w1, t, h, l)
        w3 == publish_mqtt(w2, Msg("smarthome/sensors/temperature", "", "", "", t))
        w4 == publish_mqtt(w3, Msg("smarthome/sensors/humidity", "", "", "", h))
        w5 == publish_mqtt(w4, Msg("smarthome/sensors/light", "", "", "", l))
    IN  IF RateLimitOpen(now, w5.last_thingspeak)
        THEN send_telemetry(w5)
        ELSE w5

\* --------------------------------------------------------- execute_command
NoAction == "<None>"         \* an `action` that is not text (None): .lower() raises

LowerIdentity(action) == action      \* no case folding

Lower(action) ==             \* str.lower() on the action strings in use
    CASE action \in {"on", "ON", "On"} -> "on"
      [] action \in {"off", "OFF", "Off"} -> "off"
      [] action = "TOGGLE" -> "toggle"
      [] OTHER -> action

execute_command_else_light(w, actuator, action, source) ==   \* `else` for `elif`
    IF action = NoAction THEN [w |-> w, raised |-> TRUE]
    ELSE
    LET a == Lower(action)
        target == IF actuator = "fan" THEN "fan" ELSE "light"
        w1 == [w EXCEPT !.actuator_states[target] = (a = "on")]
        w2 == save_actuator_event(w1, target, a, FALSE)
        w3 == publish_mqtt(w2, Msg("smarthome/actuators/" \o target,
                                   a, source, "", NONE))
    IN  [w |-> w3, raised |-> FALSE]

execute_command(w, actuator, action, source) ==
    IF action = NoAction THEN [w |-> w, raised |-> TRUE]
    ELSE
    LET a == Lower(action) IN
    IF actuator \in {"fan", "light"} THEN
        LET w1 == [w EXCEPT !.actuator_states[actuator] = (a = "on")]
            w2 == save_actuator_event(w1, actuator, a, FALSE)
            w3 == publish_mqtt(w2, Msg("smarthome/actuators/" \o actuator,
                                       a, source, "", NONE))
        IN [w |-> w3, raised |-> FALSE]
    ELSE [w |-> w, raised |-> FALSE]

\* ---------------------------------------------------------- on_mqtt_message
\* A topic is the sequence of its characters, so that `"fan" in topic` is a
\* substring test.  A payload is what json.loads makes of it: text that is
\* not JSON, a JSON object with its `action` and `state` members (Absent when
\* the key is missing, NoAction when the value is null or not text), or any
\* other JSON value (number, boolean, quoted string, array, null).
Absent == "<absent>"
NoPayload == [kind |-> "none", text |-> "", action |-> Absent, state |-> Absent]
Text(t) == [kind |-> "text", text |-> t, action |-> Absent, state |-> Absent]
Object(a, st) == [kind |-> "object", text |-> "", action |-> a, state |-> st]
Scalar == [kind |-> "scalar", text |-> "", action |-> Absent, state |-> Absent]

TopicPrefix == <<"s","m","a","r","t","h","o","m","e","/",
                 "c","o","m","m","a","n","d","s","/">>
FanChars == <<"f","a","n">>
LightChars == <<"l","i","g","h","t">>
FanTopic == TopicPrefix \o FanChars
LightTopic == TopicPrefix \o LightChars
BuzzerTopic == TopicPrefix \o <<"b","u","z","z","e","r">>
LightFanTopic == TopicPrefix \o LightChars \o <<"/">> \o FanChars

Contains(topic, sub) ==      \* `sub in topic`
    \E i \in 1..(Len(topic) - Len(sub) + 1) :
        SubSeq(topic, i, i + Len(sub) - 1) = sub

json_loads(payload) ==       \* lines 212-215
    IF payload.kind = "text"
    THEN [isdict |-> TRUE, action |-> payload.text, state |-> Absent]
    ELSE [isdict |-> payload.kind = "object",
          action |-> payload.action, state |-> payload.state]

actuator_of_topic_light_first(topic) ==  \* the two tests in the other order
    IF Contains(topic, LightChars) THEN "light"
    ELSE IF Contains(topic, FanChars) THEN "fan"
    ELSE ""

actuator_of_topic(topic) ==  \* lines 218-223
    IF Contains(topic, FanChars) THEN "fan"
    ELSE IF Contains(topic, LightChars) THEN "light"
    ELSE ""

command_action_state_first(command) ==   \* `state` looked up before `action`
    IF command.state # Absent THEN command.state
    ELSE IF command.action # Absent THEN command.action
    ELSE ""

command_action_null_falls_back(command) ==   \* `action or state`: a null action falls back
    IF command.action # Absent /\ command.action # NoAction THEN command.action
    ELSE IF command.state # Absent THEN command.state
    ELSE ""

command_action(command) ==   \* line 225
    IF command.action # Absent THEN command.action
    ELSE IF command.state # Absent THEN command.state
    ELSE ""

\* The handler's result: what it did to the state, the actuator it selected,
\* the action it derived (Absent when it got to none), and how it ended.  An
\* exception that left the callback ("escaped") would be re-raised by the
\* client inside its loop thread and end that thread; the handler's try/except
\* catches everything, so it ends "ignored" (the early return of line 223),
\* "error" (an exception caught at line 229) or "success".
handle_mqtt_message_uncaught(w, topic, payload) ==   \* without the try/except
    LET command == json_loads(payload)
        actuator == actuator_of_topic(topic)
    IN  IF actuator = ""
        THEN [w |-> w, actuator |-> "", action |-> Absent, status |-> "ignored"]
        ELSE IF ~command.isdict
        THEN [w |-> w, actuator |-> actuator, action |-> Absent, status |-> "escaped"]
        ELSE LET action == command_action(command)
                 r == execute_command(w, actuator, action, "MQTT")
             IN  [w |-> r.w, actuator |-> actuator, action |-> action,
                  status |-> IF r.raised THEN "escaped" ELSE "success"]

handle_mqtt_message(w, topic, payload) ==
    LET command == json_loads(payload)
        actuator == actuator_of_topic(topic)
    IN  IF actuator = ""
        THEN [w |-> w, actuator |-> "", action |-> Absent, status |-> "ignored"]
        ELSE IF ~command.isdict
        THEN [w |-> w, actuator |-> actuator, action |-> Absent, status |-> "error"]
        ELSE LET action == command_action(command)
                 r == execute_command(w, actuator, action, "MQTT")
             IN  [w |-> r.w, actuator |-> actuator, action |-> action,
                  status |-> IF r.raised THEN "error" ELSE "success"]

\* -------------------------------------------------------- apply_auto_control
FanShouldBeOnInclusive(temperature) == temperature >= T_high   \* `>=` for `>`

FanShouldBeOn(temperature) == temperature > T_high

IsCritical(temperature) == temperature > T_critical

LightShouldBeOn(light) == light < L_threshold

HumidityIsHigh(humidity) == humidity > H_high

Cmd(actuator, action) == [actuator |-> actuator, action |-> action]

FanOnBody(w, temperature) ==            \* lines 320-341
    LET w1 == [w EXCEPT !.actuator_states.fan = TRUE]
        w2 == save_actuator_event(w1, "fan", "on", TRUE)
        w3 == publish_mqtt(w2, Msg("smarthome/actuators/fan", "on", "auto",
                                   "high_temp", NONE))
        w4 == IF IsCritical(temperature)
              THEN publish_mqtt(save_alert(w3, "temperature_critical", temperature),
                                Msg("smarthome/alerts", "critical", "", "", temperature))
              ELSE w3
    IN [w |-> w4, commands |-> <<Cmd("fan", "on")>>]

FanOnBranchUngated(w, temperature) ==   \* without `if not self.actuator_states["fan"]`
    FanOnBody(w, temperature)

FanOnBranch(w, temperature) ==          \* lines 319-341
    IF ~w.actuator_states.fan THEN FanOnBody(w, temperature)
    ELSE [w |-> w, commands |-> <<>>]

FanOffBranchNoCommand(w) ==             \* FanOffBranch without `commands["fan"] = "off"`
    IF w.actuator_states.fan THEN
        LET w1 == [w EXCEPT !.actuator_states.fan = FALSE]
            w2 == save_actuator_event(w1, "fan", "off", TRUE)
            w3 == publish_mqtt(w2, Msg("smarthome/actuators/fan", "off", "auto", "", NONE))
        IN [w |-> w3, commands |-> <<>>]
    ELSE [w |-> w, commands |-> <<>>]

FanOffBranch(w) ==                      \* lines 343-351
    IF w.actuator_states.fan THEN
        LET w1 == [w EXCEPT !.actuator_states.fan = FALSE]
            w2 == save_actuator_event(w1, "fan", "off", TRUE)
            w3 == publish_mqtt(w2, Msg("smarthome/actuators/fan", "off", "auto", "", NONE))
        IN [w |-> w3, commands |-> <<Cmd("fan", "off")>>]
    ELSE [w |-> w, commands |-> <<>>]

FanControlLevelAlert(w, temperature) == \* the critical alert outside the state-change test
    LET r == IF FanShouldBeOn(temperature) THEN FanOnBranch(w, temperature)
             ELSE FanOffBranch(w)
    IN  IF IsCritical(temperature) /\ w.actuator_states.fan
        THEN [r EXCEPT !.w = save_alert(r.w, "temperature_critical", temperature)]
        ELSE r

FanControl(w, temperature) ==           \* lines 318-351
    IF FanShouldBeOn(temperature) THEN FanOnBranch(w, temperature) ELSE FanOffBranch(w)

LightControlKeepsOn(w, light) ==        \* a light that is ON is left alone
    IF LightShouldBeOn(light) /\ ~w.actuator_states.light
    THEN [w |-> publish_mqtt([w EXCEPT !.actuator_states.light = TRUE],
                             Msg("smarthome/actuators/light", "on", "auto", "", NONE)),
          commands |-> <<Cmd("light", "on")>>]
    ELSE [w |-> w, commands |-> <<>>]

LightControl(w, light) ==               \* lines 354-371: no event is saved
    IF LightShouldBeOn(light) THEN
        IF ~w.actuator_states.light THEN
            [w |-> publish_mqtt([w EXCEPT !.actuator_states.light = TRUE],
                                Msg("smarthome/actuators/light", "on", "auto", "", NONE)),
             commands |-> <<Cmd("light", "on")>>]
        ELSE [w |-> w, commands |-> <<>>]
    ELSE
        IF w.actuator_states.light THEN
            [w |-> publish_mqtt([w EXCEPT !.actuator_states.light = FALSE],
                                Msg("smarthome/actuators/light", "off", "auto", "", NONE)),
             commands |-> <<Cmd("light", "off")>>]
        ELSE [w |-> w, commands |-> <<>>]

HumidityAlert(w, humidity) ==           \* lines 374-382
    IF HumidityIsHigh(humidity)
    THEN publish_mqtt(save_alert(w, "humidity_high", humidity),
                      Msg("smarthome/alerts", "warning", "", "", humidity))
    ELSE w

\* A comparison of None with a number raises TypeError: the function stops
\* there, keeping what it has done, and returns nothing.
apply_auto_control(w, temperature, humidity, light) ==
    IF temperature = NONE THEN [w |-> w, commands |-> <<>>, raised |-> TRUE]
    ELSE
    LET f == FanControl(w, temperature) IN
    IF light = NONE THEN [w |-> f.w, commands |-> f.commands, raised |-> TRUE]
    ELSE
    LET g == LightControl(f.w, light)
        c == f.commands \o g.commands
    IN  IF humidity = NONE THEN [w |-> g.w, commands |-> c, raised |-> TRUE]
        ELSE [w |-> HumidityAlert(g.w, humidity), commands |-> c, raised |-> FALSE]

\* ------------------------------------------------------------ the histories
Pre ==
    [fan |-> actuator_states.fan, light |-> actuator_states.light,
     events |-> Len(actuator_events), alerts |-> Len(alerts),
     published |-> Len(published), readings |-> Len(sensor_readings),
     telemetry |-> Len(telemetry), last_thingspeak |-> last_thingspeak,
     sensor_data |-> sensor_data]

Op(name, t, h, l, actuator, action, status, commands) ==
    [op |-> name, temperature |-> t, humidity |-> h, light |-> l,
     actuator |-> actuator, action |-> action, status |-> status,
     commands |-> commands, at |-> now, db |-> db_available,
     conn |-> mqtt_connected, pre |-> Pre, topic |-> <<>>, payload |-> NoPayload]

NoOp == [op |-> "none", temperature |-> NONE, humidity |-> NONE, light |-> NONE,
         actuator |-> "", action |-> "", status |-> "", commands |-> <<>>,
         at |-> StartTime, db |-> TRUE, conn |-> FALSE,
         pre |-> [fan |-> FALSE, light |-> FALSE, events |-> 0, alerts |-> 0,
                  published |-> 0, readings |-> 0, telemetry |-> 0,
                  last_thingspeak |-> 0,
                  sensor_data |-> [temperature |-> NONE, humidity |-> NONE,
                                   light_level |-> NONE, timestamp |-> NONE]],
         topic |-> <<>>, payload |-> NoPayload]

Record(o) ==
    /\ last' = o
    /\ prev' = last
    /\ steps' = steps + 1

\* --------------------------------------------------------------------- Init
\* Constructed is the state SmartHomeBackend.__init__ leaves.  Init is that
\* state once run() has called connect_mqtt and the broker was reachable, so
\* that the receive loop is running and the MQTT callbacks can arrive.
Constructed ==
    /\ sensor_data = [temperature |-> NONE, humidity |-> NONE,
                      light_level |-> NONE, timestamp |-> NONE]
    /\ actuator_states = [fan |-> FALSE, light |-> FALSE]
    /\ mqtt_connected = FALSE
    /\ last_thingspeak = 0
    /\ sensor_readings = <<>>
    /\ actuator_events = <<>>
    /\ alerts = <<>>
    /\ published = <<>>
    /\ telemetry = <<>>
    /\ now = StartTime
    /\ db_available = TRUE
    /\ cloud_ok = TRUE
    /\ teardown = <<>>
    /\ last = NoOp
    /\ prev = NoOp
    /\ steps = 0
    /\ pc = [th \in Threads |-> "idle"]
    /\ req = [th \in Threads |-> <<NONE, NONE, NONE>>]
    /\ loc = [th \in Threads |-> [current_time |-> 0, commands |-> <<>>, status |-> ""]]
    /\ twin = [w |-> World, status |-> "", commands |-> <<>>]
    /\ session = [callback |-> "none", subscribed |-> FALSE]

Init == Constructed /\ mqtt_loop = "running"

\* ------------------------------------------------------- handlers, one at a time
\* POST /sensor
receive_sensor_data_run(temperature, humidity, light) ==
    \E w1 \in {update_sensor_data(World, temperature, humidity, light)} :
    \E r \in {apply_auto_control(w1, temperature, humidity, light)} :
        /\ Commit(r.w)
        /\ Record(Op("ingest", temperature, humidity, light, "", "",
                     IF r.raised THEN "error" ELSE "success",
                     IF r.raised THEN <<>> ELSE r.commands))
        /\ UNCHANGED <<mqtt_connected, now, db_available, conc,
                       cloud_ok, mqtt_loop, teardown, session>>

receive_sensor_data(temperature, humidity, light) ==
    receive_sensor_data_run(temperature, humidity, light) /\ UNCHANGED twin

\* POST /control
manual_control_run(actuator, action) ==
    \E r \in {execute_command(World, actuator, action, "HTTP")} :
        /\ Commit(r.w)
        /\ Record(Op("control", NONE, NONE, NONE, actuator, action,
                     IF r.raised THEN "error" ELSE "success", <<>>))
        /\ UNCHANGED <<mqtt_connected, now, db_available, conc,
                       cloud_ok, mqtt_loop, teardown, session>>

manual_control(actuator, action) ==
    manual_control_run(actuator, action) /\ UNCHANGED twin

\* POST /sensor with a body that is not a JSON object: request.get_json()
\* or data.get raises before anything is touched.
receive_sensor_data_no_body ==
    /\ Record(Op("ingest_no_body", NONE, NONE, NONE, "", "", "error", <<>>))
    /\ UNCHANGED <<core, mqtt_connected, now, db_available, conc, life>>

\* A message on smarthome/commands/#: the broker delivers it while the
\* session holds the subscription that on_mqtt_connect made.
on_mqtt_message(topic, payload) ==
    \E r \in {handle_mqtt_message(World, topic, payload)} :
        /\ mqtt_loop = "running" /\ session.subscribed
        /\ Commit(r.w)
        /\ Record([Op("mqtt", NONE, NONE, NONE, r.actuator, r.action, r.status, <<>>)
                     EXCEPT !.topic = topic, !.payload = payload])
        /\ mqtt_loop' = IF r.status = "escaped" THEN "dead" ELSE mqtt_loop
        /\ UNCHANGED <<mqtt_connected, now, db_available, conc, cloud_ok, teardown, twin,
                       session>>

on_mqtt_connect(rc) ==
    /\ mqtt_loop = "running"
    /\ mqtt_connected' = (rc = 0)
    /\ session' = [callback |-> IF rc = 0 THEN "connected" ELSE "refused",
                   subscribed |-> rc = 0]
    /\ Record(Op("connect", NONE, NONE, NONE, "", "", "", <<>>))
    /\ UNCHANGED <<core, now, db_available, conc, cloud_ok, mqtt_loop, teardown, twin>>

on_mqtt_disconnect ==
    /\ mqtt_loop = "running" /\ mqtt_connected
    /\ mqtt_connected' = FALSE
    /\ session' = [callback |-> "disconnected", subscribed |-> FALSE]
    /\ Record(Op("disconnect", NONE, NONE, NONE, "", "", "", <<>>))
    /\ UNCHANGED <<core, now, db_available, conc, cloud_ok, mqtt_loop, teardown, twin>>

\* the environment: the sqlite connection starts or stops accepting writes
StorageChanges ==
    /\ db_available' = ~db_available
    /\ Record(Op("storage", NONE, NONE, NONE, "", "", "", <<>>))
    /\ UNCHANGED <<core, now, mqtt_connected, conc, life>>

\* the environment: the clock advances
Tick(d) ==
    /\ now' = now + d
    /\ Record(Op("tick", NONE, NONE, NONE, "", "", "", <<>>))
    /\ UNCHANGED <<core, mqtt_connected, db_available, conc, life>>

\* the environment: ThingSpeak starts or stops answering 200 within the timeout
CloudChanges ==
    /\ cloud_ok' = ~cloud_ok
    /\ UNCHANGED <<core, now, mqtt_connected, db_available, conc, hist,
                   mqtt_loop, teardown, twin, session>>

\* run() calls connect_mqtt once.  When the broker is reachable connect()
\* returns and loop_start() starts the receive loop; otherwise connect()
\* raises, the loop is never started and the system goes on with HTTP alone.
connect_mqtt(reachable) ==
    /\ mqtt_loop = "idle"
    /\ mqtt_loop' = IF reachable THEN "running" ELSE "failed"
    /\ Record(Op("connect_mqtt", NONE, NONE, NONE, "", "", "", <<>>))
    /\ UNCHANGED <<core, now, mqtt_connected, db_available, conc, cloud_ok,
                   teardown, twin, session>>

\* cleanup, from the finally of run(): the loop is stopped and the client
\* disconnected only under `if self.mqtt_connected`; the storage handle is
\* closed; get_statistics then uses the closed connection and raises.
cleanup ==
    /\ mqtt_loop # "idle"
    /\ teardown = <<>>
    /\ teardown' = (IF mqtt_connected THEN <<"loop_stop", "disconnect">> ELSE <<>>)
                   \o <<"close", "get_statistics">>
    /\ mqtt_loop' = IF mqtt_connected /\ mqtt_loop = "running"
                    THEN "stopped" ELSE mqtt_loop
    /\ db_available' = FALSE
    /\ Record(Op("cleanup", NONE, NONE, NONE, "", "", "error", <<>>))
    /\ session' = IF mqtt_connected THEN [session EXCEPT !.subscribed = FALSE]
                   ELSE session
    /\ UNCHANGED <<core, now, mqtt_connected, conc, cloud_ok, twin>>

\* The MQTT commands Spec receives next to its readings.
Messages == {<<FanTopic, Object("on", Absent)>>, <<LightTopic, Text("off")>>}

Next ==
    /\ steps < MaxSteps
    /\ \/ \E t \in Temperatures, h \in Humidities, l \in Lights :
              receive_sensor_data(t, h, l)
       \/ receive_sensor_data_no_body
       \/ \E a \in Actuators, s \in ActionStrings : manual_control(a, s)
       \/ \E m \in Messages : on_mqtt_message(m[1], m[2])
       \/ \E rc \in {0, 5} : on_mqtt_connect(rc)
       \/ on_mqtt_disconnect
       \/ StorageChanges
       \/ \E d \in TickSteps : now + d <= StartTime + MaxElapsed /\ Tick(d)

Spec == Init /\ [][Next]_vars

\* The command paths with every action string, topic and payload form.
CmdControls ==
    ({"fan"} \X (CmdActionStrings \cup {NoAction}))
    \cup (CmdActuators \X {"on", "off"})

CmdMessages ==
    ({FanTopic, LightTopic, BuzzerTopic, LightFanTopic} \X {Text("on")})
    \cup ({FanTopic} \X {Text("OFF"), Object("on", Absent), Object(Absent, "on"),
                         Object("off", "on"), Object(Absent, Absent),
                         Object(NoAction, "on"), Scalar})
    \cup ({LightTopic} \X {Object("on", "off"), Scalar})

CmdNext ==
    /\ steps < MaxCmdSteps
    /\ \/ \E c \in CmdControls : manual_control(c[1], c[2])
       \/ \E m \in CmdMessages : on_mqtt_message(m[1], m[2])
       \/ \E rc \in {0, 5} : on_mqtt_connect(rc)
       \/ on_mqtt_disconnect
       \/ StorageChanges

CmdSpec == Init /\ [][CmdNext]_vars

\* The life of the process: run() connects, requests and callbacks are
\* served, and a shutdown runs cleanup, after which nothing runs.
LifeReadings == {<<NONE, 50, 100>>, <<30, 80, 100>>, <<40, 50, 500>>}
LifeControls == {<<"fan", "on">>, <<"fan", NoAction>>}
LifeMessages == {<<FanTopic, Scalar>>, <<LightTopic, Text("on")>>}

LifeNext ==
    /\ steps < MaxLifeSteps
    /\ teardown = <<>>
    /\ \/ \E reachable \in BOOLEAN : connect_mqtt(reachable)
       \/ \E rc \in {0, 5} : on_mqtt_connect(rc)
       \/ on_mqtt_disconnect
       \/ \E r \in LifeReadings : receive_sensor_data(r[1], r[2], r[3])
       \/ receive_sensor_data_no_body
       \/ \E c \in LifeControls : manual_control(c[1], c[2])
       \/ \E m \in LifeMessages : on_mqtt_message(m[1], m[2])
       \/ StorageChanges
       \/ CloudChanges
       \/ cleanup

LifeInit == Constructed /\ mqtt_loop = "idle"

LifeSpec == LifeInit /\ [][LifeNext]_vars

\* Two runs of the backend fed the same requests, in the same environment
\* (clock, store, ThingSpeak), whose broker connections come and go
\* independently.  The variables hold the first run, twin.w the second,
\* twin.status and twin.commands the second run's last response.
TwinReadings == {<<30, 50, 100>>, <<40, 80, 500>>, <<20, 50, 500>>, <<30, 50, NONE>>}
TwinControls == {<<"fan", "on">>, <<"light", "toggle">>, <<"fan", NoAction>>}

twin_receive_sensor_data(temperature, humidity, light) ==
    \E v1 \in {update_sensor_data(twin.w, temperature, humidity, light)} :
    \E q \in {apply_auto_control(v1, temperature, humidity, light)} :
        /\ receive_sensor_data_run(temperature, humidity, light)
        /\ twin' = [w |-> q.w,
                    status |-> IF q.raised THEN "error" ELSE "success",
                    commands |-> IF q.raised THEN <<>> ELSE q.commands]

twin_manual_control(actuator, action) ==
    \E q \in {execute_command(twin.w, actuator, action, "HTTP")} :
        /\ manual_control_run(actuator, action)
        /\ twin' = [w |-> q.w,
                    status |-> IF q.raised THEN "error" ELSE "success",
                    commands |-> <<>>]

\* the second run's on_mqtt_connect(0) or on_mqtt_disconnect
twin_connection_changes ==
    /\ twin' = [twin EXCEPT !.w.mqtt_connected = ~@]
    /\ UNCHANGED <<core, now, mqtt_connected, db_available, conc, hist,
                   cloud_ok, mqtt_loop, teardown, session>>

TwinNext ==
    /\ steps < MaxTwinSteps
    /\ \/ \E r \in TwinReadings : twin_receive_sensor_data(r[1], r[2], r[3])
       \/ \E c \in TwinControls : twin_manual_control(c[1], c[2])
       \/ on_mqtt_connect(0)
       \/ on_mqtt_disconnect
       \/ twin_connection_changes
       \/ StorageChanges

TwinSpec == Init /\ [][TwinNext]_vars

\* Ingestions against a clock that advances second by second.
RateNext ==
    \/ \E r \in RateReadings :
           /\ Len(sensor_readings) < MaxRateCalls
           /\ receive_sensor_data(r[1], r[2], r[3])
    \/ \E d \in RateTickSteps :
           /\ now + d <= StartTime + MaxRateElapsed
           /\ Tick(d)
    \/ CloudChanges

RateSpec == Init /\ [][RateNext]_vars

\* ------------------------------------------ POST /sensor, statement by statement
\* Flask hands each request to its own thread and SmartHomeBackend holds no
\* lock, so the statements of two requests interleave.  A thread runs
\* receive_sensor_data once: update_sensor_data (u_*), apply_auto_control
\* (a_*), then the response.
ThreadStep(th, from, to, w, l) ==
    /\ pc[th] = from
    /\ pc' = [pc EXCEPT ![th] = to]
    /\ Commit(w)
    /\ loc' = [loc EXCEPT ![th] = l]
    /\ UNCHANGED <<mqtt_connected, now, db_available, hist, req, life>>

Temp(th) == req[th][1]
Hum(th) == req[th][2]
Light(th) == req[th][3]
WithCommand(th, actuator, action) ==
    [loc[th] EXCEPT !.commands = Append(@, Cmd(actuator, action))]

http_begin(th, r) ==                    \* lines 54-58
    /\ pc[th] = "idle"
    /\ \A other \in Threads : other < th => pc[other] # "idle"
    /\ pc' = [pc EXCEPT ![th] = "u_snapshot"]
    /\ req' = [req EXCEPT ![th] = r]
    /\ UNCHANGED <<core, mqtt_connected, now, db_available, hist, loc, life>>

u_snapshot(th) ==                       \* lines 262-267
    ThreadStep(th, "u_snapshot", "u_save",
               [World EXCEPT !.sensor_data =
                  snapshot(@, Temp(th), Hum(th), Light(th))],
               loc[th])

u_save(th) ==                           \* line 270
    ThreadStep(th, "u_save", "u_publish",
               save_sensor_reading(World, Temp(th), Hum(th), Light(th)), loc[th])

u_publish(th) ==                        \* lines 274-281
    ThreadStep(th, "u_publish", "u_gate",
               publish_mqtt(
                 publish_mqtt(
                   publish_mqtt(World,
                     Msg("smarthome/sensors/temperature", "", "", "", Temp(th))),
                   Msg("smarthome/sensors/humidity", "", "", "", Hum(th))),
                 Msg("smarthome/sensors/light", "", "", "", Light(th))),
               loc[th])

u_gate(th) ==                           \* lines 284-285
    ThreadStep(th, "u_gate",
               IF RateLimitOpen(now, last_thingspeak) THEN "u_send" ELSE "a_fan",
               World, [loc[th] EXCEPT !.current_time = now])

u_send_no_timeout(th) ==               \* requests.get without `timeout=10`
    /\ cloud_ok
    /\ ThreadStep(th, "u_send", "u_stamp", publish_to_thingspeak(World), loc[th])

\* line 286: the HTTP call returns, or gives up after 10 s (timeout=10, the
\* exception is caught in publish_to_thingspeak); either way the thread goes on
u_send(th) ==
    ThreadStep(th, "u_send", "u_stamp", publish_to_thingspeak(World), loc[th])

u_stamp(th) ==                          \* line 287
    ThreadStep(th, "u_stamp", "a_fan",
               [World EXCEPT !.last_thingspeak = loc[th].current_time], loc[th])

a_fan(th) ==                            \* lines 318-319, 342-343
    ThreadStep(th, "a_fan",
               IF Temp(th) = NONE THEN "respond_error"
               ELSE IF FanShouldBeOn(Temp(th))
                    THEN (IF ~actuator_states.fan THEN "a_fan_on" ELSE "a_light")
                    ELSE (IF actuator_states.fan THEN "a_fan_off" ELSE "a_light"),
               World, loc[th])

a_fan_on(th) ==                         \* lines 320-321
    ThreadStep(th, "a_fan_on", "a_fan_on_save",
               [World EXCEPT !.actuator_states.fan = TRUE],
               WithCommand(th, "fan", "on"))

a_fan_on_save(th) ==                    \* line 322
    ThreadStep(th, "a_fan_on_save", "a_fan_on_pub",
               save_actuator_event(World, "fan", "on", TRUE), loc[th])

a_fan_on_pub(th) ==                     \* lines 326-331
    ThreadStep(th, "a_fan_on_pub",
               IF IsCritical(Temp(th)) THEN "a_fan_alert" ELSE "a_light",
               publish_mqtt(World, Msg("smarthome/actuators/fan", "on", "auto",
                                       "high_temp", NONE)),
               loc[th])

a_fan_alert(th) ==                      \* lines 332-341
    ThreadStep(th, "a_fan_alert", "a_light",
               publish_mqtt(save_alert(World, "temperature_critical", Temp(th)),
                            Msg("smarthome/alerts", "critical", "", "", Temp(th))),
               loc[th])

a_fan_off(th) ==                        \* lines 344-345
    ThreadStep(th, "a_fan_off", "a_fan_off_save",
               [World EXCEPT !.actuator_states.fan = FALSE],
               WithCommand(th, "fan", "off"))

a_fan_off_save(th) ==                   \* line 346
    ThreadStep(th, "a_fan_off_save", "a_fan_off_pub",
               save_actuator_event(World, "fan", "off", TRUE), loc[th])

a_fan_off_pub(th) ==                    \* lines 349-351
    ThreadStep(th, "a_fan_off_pub", "a_light",
               publish_mqtt(World, Msg("smarthome/actuators/fan", "off", "auto", "", NONE)),
               loc[th])

a_light(th) ==                          \* lines 354-355, 363-364
    ThreadStep(th, "a_light",
               IF Light(th) = NONE THEN "respond_error"
               ELSE IF LightShouldBeOn(Light(th))
                    THEN (IF ~actuator_states.light THEN "a_light_on" ELSE "a_humidity")
                    ELSE (IF actuator_states.light THEN "a_light_off" ELSE "a_humidity"),
               World, loc[th])

a_light_on(th) ==                       \* lines 356-357
    ThreadStep(th, "a_light_on", "a_light_on_pub",
               [World EXCEPT !.actuator_states.light = TRUE],
               WithCommand(th, "light", "on"))

a_light_on_pub(th) ==                   \* lines 360-362
    ThreadStep(th, "a_light_on_pub", "a_humidity",
               publish_mqtt(World, Msg("smarthome/actuators/light", "on", "auto", "", NONE)),
               loc[th])

a_light_off(th) ==                      \* lines 365-366
    ThreadStep(th, "a_light_off", "a_light_off_pub",
               [World EXCEPT !.actuator_states.light = FALSE],
               WithCommand(th, "light", "off"))

a_light_off_pub(th) ==                  \* lines 369-371
    ThreadStep(th, "a_light_off_pub", "a_humidity",
               publish_mqtt(World, Msg("smarthome/actuators/light", "off", "auto", "", NONE)),
               loc[th])

a_humidity(th) ==                       \* lines 374-384
    ThreadStep(th, "a_humidity",
               IF Hum(th) = NONE THEN "respond_error" ELSE "respond_ok",
               IF Hum(th) = NONE THEN World ELSE HumidityAlert(World, Hum(th)),
               loc[th])

respond_ok(th) ==                       \* lines 69-73
    ThreadStep(th, "respond_ok", "done", World, [loc[th] EXCEPT !.status = "success"])

respond_error(th) ==                    \* lines 75-77
    ThreadStep(th, "respond_error", "done", World,
               [loc[th] EXCEPT !.status = "error", !.commands = <<>>])

\* the statements of one request thread
ThreadRun(th) ==
    \/ u_snapshot(th) \/ u_save(th) \/ u_publish(th)
    \/ u_gate(th) \/ u_send(th) \/ u_stamp(th)
    \/ a_fan(th)
    \/ a_fan_on(th) \/ a_fan_on_save(th) \/ a_fan_on_pub(th) \/ a_fan_alert(th)
    \/ a_fan_off(th) \/ a_fan_off_save(th) \/ a_fan_off_pub(th)
    \/ a_light(th)
    \/ a_light_on(th) \/ a_light_on_pub(th)
    \/ a_light_off(th) \/ a_light_off_pub(th)
    \/ a_humidity(th)
    \/ respond_ok(th) \/ respond_error(th)

ConcNext ==
    \/ \E th \in Threads, r \in ConcReadings : http_begin(th, r)
    \/ \E th \in Threads : ThreadRun(th)
    \/ (~mqtt_connected /\ (\A th \in Threads : pc[th] = "idle") /\ on_mqtt_connect(0))

ConcSpec == Init /\ [][ConcNext]_vars

\* -------------------- POST /control statement by statement, next to the loop
\* Flask handles each request in a thread of its own, while the MQTT client
\* runs its callbacks in the loop thread that loop_start created; nothing
\* locks self.mqtt_connected.  A request thread carries its actuator and its
\* action in req.
LinkControls == {<<"fan", "on">>, <<"light", "OFF">>, <<"fan", NoAction>>,
                 <<"buzzer", "on">>}

CtlActuator(th) == req[th][1]
CtlAction(th) == Lower(req[th][2])
CtlMsg(th) == Msg("smarthome/actuators/" \o CtlActuator(th), CtlAction(th), "HTTP", "", NONE)

control_begin(th, c) ==                 \* lines 93-97
    /\ pc[th] = "idle"
    /\ \A other \in Threads : other < th => pc[other] # "idle"
    /\ pc' = [pc EXCEPT ![th] = "x_lower"]
    /\ req' = [req EXCEPT ![th] = <<c[1], c[2], NONE>>]
    /\ UNCHANGED <<core, mqtt_connected, now, db_available, hist, loc, life>>

x_lower(th) ==                          \* lines 291, 293, 303
    ThreadStep(th, "x_lower",
               IF req[th][2] = NoAction THEN "respond_error"
               ELSE IF CtlActuator(th) \in {"fan", "light"} THEN "x_set"
               ELSE "respond_ok",
               World, loc[th])

x_set(th) ==                            \* lines 294, 304
    ThreadStep(th, "x_set", "x_save",
               [World EXCEPT !.actuator_states[CtlActuator(th)] = (CtlAction(th) = "on")],
               loc[th])

x_save(th) ==                           \* lines 295, 305
    ThreadStep(th, "x_save", "x_check",
               save_actuator_event(World, CtlActuator(th), CtlAction(th), FALSE),
               loc[th])

x_check(th) ==                          \* lines 299, 309: `if self.mqtt_connected:`
    ThreadStep(th, "x_check",
               IF mqtt_connected THEN "p_check" ELSE "respond_ok", World, loc[th])

p_check(th) ==                          \* lines 248-249: `if not self.mqtt_connected:`
    ThreadStep(th, "p_check",
               IF ~mqtt_connected THEN "respond_ok" ELSE "p_send", World, loc[th])

p_send(th) ==                           \* lines 252-253: mqtt_client.publish
    ThreadStep(th, "p_send", "respond_ok",
               [World EXCEPT !.published = Append(@, CtlMsg(th))], loc[th])

ControlRun(th) ==
    \/ x_lower(th) \/ x_set(th) \/ x_save(th) \/ x_check(th)
    \/ p_check(th) \/ p_send(th)
    \/ respond_ok(th) \/ respond_error(th)

LinkNext ==
    \/ \E th \in Threads, c \in LinkControls : control_begin(th, c)
    \/ \E th \in Threads : ControlRun(th)
    \/ /\ steps < MaxLinkSteps
       /\ \/ \E rc \in {0, 5} : on_mqtt_connect(rc)
          \/ on_mqtt_disconnect
          \/ on_mqtt_message(LightTopic, Text("on"))

LinkSpec == Init /\ [][LinkNext]_vars

\* The request threads with ThingSpeak answering or not.  A thread that has
\* a statement to run is scheduled again: every statement of the handler
\* returns (publish queues the message, requests.get has its timeout), and
\* the operating system does not starve a runnable thread.
TermNext ==
    \/ \E th \in Threads, r \in ConcReadings : http_begin(th, r)
    \/ \E th \in Threads : ThreadRun(th)
    \/ CloudChanges

TermSpec ==
    Init /\ [][TermNext]_vars /\ \A th \in Threads : WF_vars(ThreadRun(th))

\* ===================================================================== claims
\* What the last operation added to the tables, the broker and its response.
NewEvents == SubSeq(actuator_events, last.pre.events + 1, Len(actuator_events))
NewAlerts == SubSeq(alerts, last.pre.alerts + 1, Len(alerts))
NewPublished == SubSeq(published, last.pre.published + 1, Len(published))
EventsOf(seq, a) == SelectSeq(seq, LAMBDA e : e.actuator_type = a)
AlertsOf(seq, k) == SelectSeq(seq, LAMBDA e : e.alert_type = k)
PublishedOn(seq, topic) == SelectSeq(seq, LAMBDA m : m.topic = topic)
CommandsFor(seq, a) == SelectSeq(seq, LAMBDA c : c.actuator = a)
PreOf(o, a) == IF a = "fan" THEN o.pre.fan ELSE o.pre.light
Ingested == last.op = "ingest"
HasTemperature(o) == o.op = "ingest" /\ o.temperature # NONE

\* C1: an execute_command that sets an actuator to the value it already has
\* writes no actuator_events row and publishes nothing (so execute("fan","on")
\* twice leaves one event and one publish).
C1_ExecuteIdempotent ==
    (/\ last.op = "control"
     /\ last.actuator \in {"fan", "light"}
     /\ last.action # NoAction
     /\ (Lower(last.action) = "on") = PreOf(last, last.actuator))
    => /\ NewEvents = <<>>
       /\ NewPublished = <<>>

\* C2: after an ingestion with temperature <= T_high the fan is OFF; a fan
\* "off" event and a fan "off" command come only from a fan that was ON, and
\* a fan that was already OFF gets no event, no publish and no command.
C2_FanOffAtOrBelowHigh ==
    (HasTemperature(last) /\ last.temperature <= 28)
    => LET ev == EventsOf(NewEvents, "fan")
           pub == PublishedOn(NewPublished, "smarthome/actuators/fan")
           cmd == CommandsFor(last.commands, "fan")
       IN  /\ actuator_states.fan = FALSE
           /\ ~last.pre.fan => ev = <<>> /\ pub = <<>> /\ cmd = <<>>
           /\ last.pre.fan =>
                /\ ev = IF last.db
                        THEN <<[actuator_type |-> "fan", action |-> "off",
                                value |-> NONE, auto_triggered |-> TRUE]>>
                        ELSE <<>>
                /\ last.status = "success" => cmd = <<Cmd("fan", "off")>>
           /\ (ev # <<>> \/ cmd # <<>>) => last.pre.fan

C2_Witness ==
    /\ HasTemperature(last) /\ last.temperature <= 28
    /\ last.pre.fan
    /\ Len(EventsOf(NewEvents, "fan")) = 1
    /\ last.commands = <<Cmd("fan", "off")>>
    /\ ~actuator_states.fan

\* C3: after an ingestion with temperature > T_high the fan is ON, and of two
\* consecutive ingestions in the same temperature regime the second writes no
\* fan event, publishes no fan state and returns no fan command.
C3_FanOnAboveHighChangeOnly ==
    /\ (HasTemperature(last) /\ last.temperature > 28) => actuator_states.fan = TRUE
    /\ (/\ HasTemperature(prev) /\ HasTemperature(last)
        /\ (prev.temperature > 28) = (last.temperature > 28))
       => /\ EventsOf(NewEvents, "fan") = <<>>
          /\ PublishedOn(NewPublished, "smarthome/actuators/fan") = <<>>
          /\ CommandsFor(last.commands, "fan") = <<>>
          /\ actuator_states.fan = last.pre.fan

C3_Witness ==
    /\ HasTemperature(prev) /\ prev.temperature > 28 /\ ~prev.pre.fan
    /\ HasTemperature(last) /\ last.temperature > 28
    /\ last.conn /\ last.db /\ prev.conn /\ prev.db
    /\ Len(EventsOf(actuator_events, "fan")) = 1
    /\ Len(PublishedOn(published, "smarthome/actuators/fan")) = 1
    /\ actuator_states.fan

\* C4: every actuator state transition made by execute_command or by
\* apply_auto_control appends exactly one ActuatorEvent, no event is appended
\* without a transition, and the event's auto_triggered flag is true for
\* apply_auto_control and false for execute_command.
Transitions ==
    (IF actuator_states.fan # last.pre.fan THEN 1 ELSE 0)
    + (IF actuator_states.light # last.pre.light THEN 1 ELSE 0)

C4_OneEventPerTransition ==
    (last.op \in {"ingest", "control"} /\ last.db)
    => /\ Len(NewEvents) = Transitions
       /\ \A i \in 1..Len(NewEvents) :
             NewEvents[i].auto_triggered = (last.op = "ingest")

\* C5: after every ingestion the light is ON when light < L_threshold and OFF
\* when light >= L_threshold, whatever it was before, and a light command or
\* publish is produced only when the state changes.
C5_LightFollowsThreshold ==
    (Ingested /\ last.light # NONE)
    => /\ actuator_states.light = (last.light < 300)
       /\ (actuator_states.light = last.pre.light)
          => PublishedOn(NewPublished, "smarthome/actuators/light") = <<>>

\* C5, when the reading carries all three values.
C5_WhenAllPresent ==
    (Ingested /\ last.status = "success") => C5_LightFollowsThreshold

\* C6: every ingestion with humidity > H_high records one humidity_high alert
\* (no deduplication), whatever the fan and light states.
C6_HumidityAlertEveryReading ==
    (Ingested /\ last.humidity # NONE /\ last.humidity > 70 /\ last.db)
    => Len(AlertsOf(NewAlerts, "humidity_high")) = 1

\* C6, when the reading carries all three values.
C6_WhenAllPresent ==
    (Ingested /\ last.status = "success") => C6_HumidityAlertEveryReading

\* C7: an ingestion with temperature > T_critical while the fan is OFF turns
\* the fan ON and records exactly one temperature_critical alert (when the
\* store takes the write); one while the fan is already ON records no
\* temperature_critical alert and returns no fan command.
C7_CriticalAlertEdgeTriggered ==
    (HasTemperature(last) /\ last.temperature > 35)
    => LET crit == AlertsOf(NewAlerts, "temperature_critical") IN
       /\ actuator_states.fan
       /\ ~last.pre.fan =>
            /\ Len(crit) = (IF last.db THEN 1 ELSE 0)
            /\ \A i \in 1..Len(crit) : crit[i].value = last.temperature
       /\ last.pre.fan =>
            /\ crit = <<>>
            /\ CommandsFor(last.commands, "fan") = <<>>

C7_Witness ==
    /\ HasTemperature(prev) /\ prev.temperature > 35 /\ ~prev.pre.fan /\ prev.db
    /\ HasTemperature(last) /\ last.temperature > 35 /\ last.pre.fan /\ last.db
    /\ last.status = "success"
    /\ Len(AlertsOf(alerts, "temperature_critical")) = 1
    /\ last.commands = <<>>

\* C8: the commands an ingestion returns are exactly the actuators whose state
\* it changed, each with its new value, fan before light; ingesting
\* {temperature:30, humidity:50, light:500} with fan and light OFF returns
\* {"fan":"on"}, persists one fan event with auto_triggered = true, leaves the
\* light OFF and records no alert.
Changed(a, before, after) ==
    IF before # after THEN <<Cmd(a, OnOff(after))>> ELSE <<>>

C8_CommandsAreTheChanges ==
    /\ (Ingested /\ last.status = "success")
       => last.commands = Changed("fan", last.pre.fan, actuator_states.fan)
                          \o Changed("light", last.pre.light, actuator_states.light)
    /\ (/\ Ingested
        /\ last.temperature = 30 /\ last.humidity = 50 /\ last.light = 500
        /\ ~last.pre.fan /\ ~last.pre.light)
       => /\ last.status = "success"
          /\ last.commands = <<Cmd("fan", "on")>>
          /\ last.db => NewEvents = <<[actuator_type |-> "fan", action |-> "on",
                                       value |-> NONE, auto_triggered |-> TRUE]>>
          /\ ~actuator_states.light
          /\ NewAlerts = <<>>

C8_Witness ==
    /\ Ingested
    /\ last.temperature = 30 /\ last.humidity = 50 /\ last.light = 500
    /\ ~last.pre.fan /\ ~last.pre.light /\ last.db
    /\ last.commands = <<Cmd("fan", "on")>>
    /\ Len(actuator_events) = last.pre.events + 1

\* C9: an ingestion makes the telemetry call and records its time as the
\* last-fire time iff that time is at least 20 s after the last-fire time, and
\* otherwise does neither; ingestions at t, t+5, t+19 and t+20 from the
\* initial state fire at t and at t+20 only (time.time() is epoch seconds, so
\* the first ingestion is always at least 20 s after the initial last-fire
\* time 0); two telemetry calls are never less than 20 s apart.
CallTimes == [i \in 1..Len(sensor_readings) |-> sensor_readings[i].timestamp]
FireTimes == [i \in 1..Len(telemetry) |-> telemetry[i].at]

C9_TelemetryRateLimit ==
    /\ Ingested =>
         IF last.at - last.pre.last_thingspeak >= 20
         THEN /\ Len(telemetry) = last.pre.telemetry + 1
              /\ telemetry[Len(telemetry)].at = last.at
              /\ last_thingspeak = last.at
         ELSE /\ Len(telemetry) = last.pre.telemetry
              /\ last_thingspeak = last.pre.last_thingspeak
    /\ (/\ Len(sensor_readings) = 4
        /\ \E t \in {CallTimes[1]} : CallTimes = <<t, t + 5, t + 19, t + 20>>)
       => FireTimes = <<CallTimes[1], CallTimes[1] + 20>>
    /\ \A i, j \in 1..Len(telemetry) :
         i < j => telemetry[j].at - telemetry[i].at >= 20

C9_Witness ==
    /\ Ingested
    /\ CallTimes = <<StartTime, StartTime + 5, StartTime + 19, StartTime + 20>>
    /\ FireTimes = <<StartTime, StartTime + 20>>
    /\ last_thingspeak = StartTime + 20

\* C10: when two update_sensor_data calls run concurrently inside one 20 s
\* window, at most one of them makes the telemetry call.
C10_OneTelemetryCallPerWindow ==
    \A i, j \in 1..Len(telemetry) :
        i < j => telemetry[j].at - telemetry[i].at >= 20

\* C11: two concurrent ingestions that both carry temperature > T_high, from
\* fan OFF, make exactly one fan OFF->ON transition between them: one fan
\* event, one fan publish, one response carrying the fan command, never two.
AllDone == \A th \in Threads : pc[th] = "done"
FanOnEvents == SelectSeq(actuator_events,
                         LAMBDA e : e.actuator_type = "fan" /\ e.action = "on")
FanCommandResponses ==
    {th \in Threads : CommandsFor(loc[th].commands, "fan") # <<>>}

C11_OneFanTransition ==
    (AllDone /\ \A th \in Threads : Temp(th) # NONE /\ Temp(th) > 28)
    => /\ Len(FanOnEvents) = 1
       /\ Len(PublishedOn(published, "smarthome/actuators/fan")) <= 1
       /\ Cardinality(FanCommandResponses) <= 1

\* C12: once concurrent ingestions (and commands) have all completed, the
\* action of the most recently persisted event of an actuator agrees with
\* that actuator's in-memory state.
LastEventAgrees(a) ==
    LET ev == EventsOf(actuator_events, a)
    IN  ev # <<>> => ev[Len(ev)].action = OnOff(actuator_states[a])

C12_EventOrderMatchesState ==
    AllDone => LastEventAgrees("fan") /\ LastEventAgrees("light")

\* C13: every message an operation publishes on smarthome/actuators/fan or
\* smarthome/actuators/light carries the state ("on"/"off") that
\* actuator_states holds for that actuator, whatever action string
\* execute_command was given.
C13_PublishedStateIsStored ==
    \A a \in Actuators :
        LET pub == PublishedOn(NewPublished, "smarthome/actuators/" \o a)
        IN  \A i \in DOMAIN pub : pub[i].state = OnOff(actuator_states[a])

\* C14: an ingestion with an absent temperature, humidity or light field does
\* not throw (it answers success); the check whose input is absent is
\* skipped (its actuator keeps its state, it raises no alert) and the checks
\* whose inputs are present still run.
C14_AbsentFieldSkipped ==
    (Ingested /\ NONE \in {last.temperature, last.humidity, last.light})
    => /\ last.status = "success"
       /\ IF last.temperature = NONE
          THEN /\ actuator_states.fan = last.pre.fan
               /\ AlertsOf(NewAlerts, "temperature_critical") = <<>>
          ELSE actuator_states.fan = (last.temperature > 28)
       /\ IF last.light = NONE
          THEN actuator_states.light = last.pre.light
          ELSE actuator_states.light = (last.light < 300)
       /\ IF last.humidity = NONE
          THEN AlertsOf(NewAlerts, "humidity_high") = <<>>
          ELSE (last.humidity > 70 /\ last.db)
               => Len(AlertsOf(NewAlerts, "humidity_high")) = 1

\* C15: whenever POST /sensor answers with the error (500) response,
\* sensor_data, actuator_states, last_thingspeak and the persisted tables are
\* what they were before the request, and nothing was published or sent.
C15_RejectedIngestionMutatesNothing ==
    (last.op \in {"ingest", "ingest_no_body"} /\ last.status = "error")
    => /\ sensor_data = last.pre.sensor_data
       /\ actuator_states = [fan |-> last.pre.fan, light |-> last.pre.light]
       /\ last_thingspeak = last.pre.last_thingspeak
       /\ Len(sensor_readings) = last.pre.readings
       /\ NewEvents = <<>>
       /\ NewAlerts = <<>>
       /\ NewPublished = <<>>
       /\ Len(telemetry) = last.pre.telemetry

\* C16: when the store refuses the write of the reading during an ingestion
\* the caller gets the error response, while the snapshot is still updated
\* and auto-control still runs; and when it refuses the write of the event
\* during POST /control the caller gets the error response too.
C16_PersistenceFailureReported ==
    /\ (Ingested /\ ~last.db
           /\ NONE \notin {last.temperature, last.humidity, last.light})
       => /\ last.status = "error"
          /\ sensor_data.temperature = last.temperature
          /\ actuator_states.fan = (last.temperature > 28)
          /\ actuator_states.light = (last.light < 300)
    /\ (last.op = "control" /\ ~last.db
           /\ last.actuator \in Actuators /\ last.action # NoAction)
       => last.status = "error"

\* C17: when the store refuses the event of a transition (a POST /control
\* that changes the actuator, or an automatic fan transition) the actuator
\* keeps its prior state, no state change is published for it and the caller
\* gets the error response.
AttemptsTransition(a) ==
    \/ /\ last.op = "control" /\ last.actuator = a /\ last.action # NoAction
       /\ (Lower(last.action) = "on") # PreOf(last, a)
    \/ /\ a = "fan" /\ HasTemperature(last)
       /\ (last.temperature > 28) # last.pre.fan

C17_TransitionCommittedWithEvent ==
    \A a \in Actuators :
        (AttemptsTransition(a) /\ ~last.db)
        => /\ actuator_states[a] = PreOf(last, a)
           /\ PublishedOn(NewPublished, "smarthome/actuators/" \o a) = <<>>
           /\ last.status = "error"

\* C18: for every action string given to execute_command for the fan or the
\* light, the call does not throw, and the actuator ends ON iff the string
\* lower-cased is "on": "on" and "ON" end ON; "off", "toggle", the untrimmed
\* "on " and the empty string end OFF.
SpellingsOfOn == {"on", "ON"}
Executed ==
    /\ last.op \in {"control", "mqtt"}
    /\ last.actuator \in Actuators
    /\ last.action \in CmdActionStrings \cup {"OFF"}

C18_ActionNormalized ==
    Executed
    => /\ last.status = "success"
       /\ actuator_states[last.actuator] = (last.action \in SpellingsOfOn)
       /\ \A a \in Actuators \ {last.actuator} :
              actuator_states[a] = PreOf(last, a)

C18_Witness ==
    /\ Executed /\ last.action \in {"toggle", "on ", ""}
    /\ prev.op = "control" /\ prev.action = "ON" /\ prev.actuator = last.actuator
    /\ PreOf(last, last.actuator) /\ ~actuator_states[last.actuator]

\* C19: for an MQTT command message the action is the JSON body's `action`
\* member if it has one, else its `state` member, else, only when the payload
\* is not valid JSON, the whole payload text; that action is executed on the
\* actuator selected by the topic, with source "MQTT".
ChainAction(p) ==
    IF p.kind = "object" /\ p.action # Absent THEN p.action
    ELSE IF p.kind = "object" /\ p.state # Absent THEN p.state
    ELSE IF p.kind = "text" THEN p.text
    ELSE Absent

C19_ActionFallbackChain ==
    (/\ last.op = "mqtt" /\ last.actuator \in Actuators
     /\ ChainAction(last.payload) \notin {Absent, NoAction})
    => LET x == Lower(ChainAction(last.payload))
           a == last.actuator
       IN  /\ last.status = "success"
           /\ actuator_states[a] = (x = "on")
           /\ NewPublished = <<Msg("smarthome/actuators/" \o a, x, "MQTT", "", NONE)>>
           /\ NewEvents = IF last.db
                          THEN <<[actuator_type |-> a, action |-> x,
                                  value |-> NONE, auto_triggered |-> FALSE]>>
                          ELSE <<>>

C19_Witness ==
    /\ prev.op = "mqtt" /\ prev.payload = Object(Absent, "on")
    /\ prev.topic = FanTopic /\ last.pre.fan
    /\ last.op = "mqtt" /\ last.payload = Text("OFF") /\ last.topic = FanTopic
    /\ ~actuator_states.fan
    /\ Len(NewPublished) = 1 /\ Len(NewEvents) = 1

\* C20: an MQTT message addresses the fan when its topic contains "fan",
\* otherwise the light when its topic contains "light"; a message whose topic
\* contains neither is ignored without error and leaves actuator_states, the
\* event log and the published messages as they were.
C20_TopicSelectsActuator ==
    last.op = "mqtt"
    => LET target == IF Contains(last.topic, <<"f", "a", "n">>) THEN "fan"
                     ELSE IF Contains(last.topic, <<"l", "i", "g", "h", "t">>)
                          THEN "light"
                          ELSE ""
       IN  IF target = ""
           THEN /\ last.status = "ignored"
                /\ actuator_states = [fan |-> last.pre.fan, light |-> last.pre.light]
                /\ NewEvents = <<>>
                /\ NewPublished = <<>>
           ELSE /\ last.actuator = target
                /\ \A a \in Actuators \ {target} :
                       actuator_states[a] = PreOf(last, a)
                /\ EventsOf(NewEvents, target) = NewEvents
                /\ PublishedOn(NewPublished, "smarthome/actuators/" \o target)
                      = NewPublished
                /\ last.status = "success"
                   => /\ Len(NewPublished) = 1
                      /\ actuator_states[target] = (Lower(last.action) = "on")

C20_Witness ==
    /\ prev.op = "mqtt" /\ prev.topic = BuzzerTopic /\ prev.status = "ignored"
    /\ last.op = "mqtt" /\ last.topic = LightFanTopic
    /\ ~last.pre.fan /\ actuator_states.fan /\ ~actuator_states.light
    /\ Len(NewPublished) = 1

\* C21: while the broker is disconnected no operation hands a message to the
\* MQTT client (publish_mqtt gives up before the send and nothing is queued
\* for a retry), nothing is thrown into the caller, and an ingestion with all
\* its fields present completes with the success response.
AllPresent(o) == NONE \notin {o.temperature, o.humidity, o.light}

C21_PublishBestEffort ==
    (last.op \in {"ingest", "control"} /\ ~last.conn)
    => /\ NewPublished = <<>>
       /\ (Ingested /\ AllPresent(last)) => last.status = "success"
       /\ (last.op = "control" /\ last.action # NoAction)
          => last.status = "success"

C21_Witness ==
    /\ Ingested /\ ~last.conn /\ AllPresent(last)
    /\ prev.op = "disconnect"
    /\ last.status = "success" /\ last.commands # <<>>
    /\ Len(sensor_readings) = last.pre.readings + 1
    /\ NewPublished = <<>>

\* C22: a telemetry call that is not delivered still consumes the window: the
\* next call comes no sooner than 20 seconds after it (there is no retry in
\* between), last_thingspeak is the time of the last call whether delivered
\* or not, and the ingestion that made the undelivered call answers success.
Undelivered == {i \in DOMAIN telemetry : ~telemetry[i].delivered}

C22_FailedTelemetryConsumesWindow ==
    /\ \A i \in Undelivered : \A j \in DOMAIN telemetry :
           j > i => telemetry[j].at - telemetry[i].at >= 20
    /\ telemetry # <<>> => last_thingspeak = telemetry[Len(telemetry)].at
    /\ (Ingested /\ Len(telemetry) > last.pre.telemetry
          /\ Len(telemetry) \in Undelivered)
       => last.status = "success"

C22_Witness ==
    /\ Len(telemetry) = 2
    /\ 1 \in Undelivered
    /\ telemetry[2].at - telemetry[1].at = 20
    /\ Len(sensor_readings) >= 3
    /\ Ingested /\ last.status = "success"

\* C23: the telemetry call of a successful ingestion carries, in its fan
\* field (0/1), the fan state that results from evaluating that same reading.
SentTelemetry == Ingested /\ Len(telemetry) > last.pre.telemetry

C23_TelemetryCarriesResultingFan ==
    (SentTelemetry /\ last.status = "success")
    => telemetry[Len(telemetry)].field4 = (IF actuator_states.fan THEN 1 ELSE 0)

\* C24: after an ingestion the snapshot holds exactly the temperature,
\* humidity and light of that reading, absent values included, and nothing of
\* an earlier reading.
C24_SnapshotOverwritten ==
    Ingested
    => sensor_data = [temperature |-> last.temperature,
                      humidity |-> last.humidity,
                      light_level |-> last.light,
                      timestamp |-> last.at]

C24_Witness ==
    /\ prev.op = "ingest" /\ AllPresent(prev)
    /\ Ingested /\ last.temperature = NONE /\ last.light = NONE
    /\ last.humidity # prev.humidity
    /\ sensor_data.temperature = NONE /\ sensor_data.light_level = NONE
    /\ sensor_data.humidity = last.humidity
    /\ last.pre.sensor_data.temperature = prev.temperature

\* C25: each ingestion adds one sensor_readings row exactly when it answers
\* success, and no other operation adds a row (so the number of rows is the
\* number of successful ingestions).
C25_OneRowPerAcceptedIngestion ==
    Len(sensor_readings) - last.pre.readings
      = (IF Ingested /\ last.status = "success" THEN 1 ELSE 0)

\* C26: a POST /control for an actuator other than "fan" or "light" is
\* dropped: actuator_states, the event log and the published messages are
\* unchanged, and the caller gets no error.
UnknownActuator ==
    /\ last.op = "control"
    /\ last.actuator \notin {"fan", "light"}
    /\ last.action # NoAction

C26_UnknownActuatorDropped ==
    UnknownActuator
    => /\ actuator_states = [fan |-> last.pre.fan, light |-> last.pre.light]
       /\ NewEvents = <<>>
       /\ NewPublished = <<>>
       /\ last.status = "success"

C26_Witness ==
    /\ UnknownActuator /\ last.action = "on"
    /\ last.conn /\ last.db
    /\ ~actuator_states.light /\ actuator_states.fan
    /\ Len(actuator_events) = 1 /\ Len(published) = 1
    /\ last.status = "success"

\* C27: a failure stays inside the operation it happened in.  After an
\* operation that failed (an exception while handling POST /sensor, POST
\* /control or an MQTT message, a refused write, an undelivered telemetry
\* call) the receive loop is still alive, requests and messages are still
\* accepted, and the next well-formed operation is processed as usual.
Failed(o) ==
    \/ o.status = "error"
    \/ o.op \in {"ingest", "control", "mqtt"} /\ ~o.db
    \/ o.op = "ingest" /\ \E i \in Undelivered : telemetry[i].at = o.at

ProcessedAsUsual ==
    /\ (Ingested /\ AllPresent(last))
       => /\ last.status = "success"
          /\ actuator_states.fan = (last.temperature > 28)
          /\ actuator_states.light = (last.light < 300)
          /\ last.db => Len(sensor_readings) = last.pre.readings + 1
    /\ (last.op = "control" /\ last.actuator \in Actuators
          /\ last.action \in {"on", "off"})
       => /\ last.status = "success"
          /\ actuator_states[last.actuator] = (last.action = "on")
    /\ (last.op = "mqtt" /\ last.payload.kind = "text")
       => /\ last.status = "success"
          /\ actuator_states[last.actuator] = (Lower(last.payload.text) = "on")

C27_FailureConfined ==
    /\ mqtt_loop # "dead"
    /\ teardown = <<>> => ENABLED receive_sensor_data(30, 80, 100)
    /\ teardown = <<>> => ENABLED manual_control("fan", "on")
    /\ (teardown = <<>> /\ mqtt_connected)
       => ENABLED on_mqtt_message(LightTopic, Text("on"))
    /\ Failed(prev) => ProcessedAsUsual

C27_Witness ==
    /\ prev.op = "mqtt" /\ prev.status = "error"
    /\ last.op = "mqtt" /\ last.status = "success"
    /\ ~last.pre.light /\ actuator_states.light
    /\ mqtt_loop = "running"

\* C28: whenever cleanup has run, the receive loop that connect_mqtt started
\* has been stopped, the client disconnected and the storage handle closed,
\* in that order, also when the connection was never established or had
\* dropped.
LoopStarted == mqtt_loop \in {"running", "stopped", "dead"}

C28_CleanupStopsLoopThenCloses ==
    last.op = "cleanup"
    => /\ mqtt_loop # "running"
       /\ IF LoopStarted
          THEN SubSeq(teardown, 1, 3) = <<"loop_stop", "disconnect", "close">>
          ELSE teardown[1] = "close"

\* C29: every ingestion that has started finishes: its thread reaches the
\* response, which is either the success response or the error response,
\* whether or not the telemetry endpoint answers.
C29_IngestionFinishes ==
    \A th \in Threads :
        (pc[th] # "idle")
        ~> (pc[th] = "done" /\ loc[th].status \in {"success", "error"})

C29_Witness ==
    /\ AllDone
    /\ Undelivered # {}
    /\ \E th \in Threads : loc[th].status = "success" /\ loc[th].commands # <<>>
    /\ \E th \in Threads : loc[th].status = "error"

\* C30: whatever execute_command calls came before, a successful ingestion
\* leaves the fan ON iff its temperature is above T_high and the light ON iff
\* its light level is below L_threshold, so a manual setting against the
\* thresholds lasts only until the next ingestion.
C30_AutoOverridesManual ==
    (Ingested /\ AllPresent(last) /\ last.status = "success")
    => /\ actuator_states.fan = (last.temperature > 28)
       /\ actuator_states.light = (last.light < 300)

C30_Witness ==
    /\ prev.op = "control" /\ prev.actuator = "light" /\ prev.action = "on"
    /\ Ingested /\ last.status = "success"
    /\ last.light >= 300 /\ last.temperature > 28
    /\ last.pre.light /\ ~last.pre.fan
    /\ ~actuator_states.light /\ actuator_states.fan

\* C31: once concurrent ingestions have all completed successfully, the
\* actuator state is the one derived from the reading the snapshot holds:
\* fan = (snapshot temperature > T_high), light = (snapshot light < L_threshold).
AllSucceeded == AllDone /\ \A th \in Threads : loc[th].status = "success"

C31_StateDerivedFromSnapshot ==
    AllSucceeded
    => /\ actuator_states.fan = (sensor_data.temperature > 28)
       /\ actuator_states.light = (sensor_data.light_level < 300)

\* C32: an ingestion that changes the state of the fan or the light answers
\* success and returns the command for that change, whichever fields of the
\* reading are present or absent.
C32_ChangeIsAnswered ==
    Ingested
    => \A a \in Actuators :
          actuator_states[a] # PreOf(last, a)
          => /\ last.status = "success"
             /\ CommandsFor(last.commands, a) = <<Cmd(a, OnOff(actuator_states[a]))>>

\* C33: when a reading with temperature > T_critical is ingested, a
\* temperature_critical alert has been recorded at or after the moment the
\* fan last turned ON.  Stated for a fan that was OFF before the previous
\* operation, so that it last turned ON during the previous operation or
\* this one, for operations that did not fail and a store that accepted the
\* writes of both.
AlertsSince(o) == SubSeq(alerts, o.pre.alerts + 1, Len(alerts))

C33_CriticalNeverMissed ==
    (/\ HasTemperature(last) /\ last.temperature > 35
     /\ ~prev.pre.fan
     /\ prev.status # "error" /\ last.status = "success"
     /\ prev.db /\ last.db)
    => AlertsOf(AlertsSince(prev), "temperature_critical") # <<>>

\* C34: two runs fed the same ingestions and commands, whose broker
\* connections differ over time, have the same sensor snapshot, the same
\* actuator_states, the same persisted readings, events and alerts, and gave
\* the same responses with the same command sets; only what they published
\* differs.
Decisions(w) ==
    [sensor_data |-> w.sensor_data, actuator_states |-> w.actuator_states,
     sensor_readings |-> w.sensor_readings,
     actuator_events |-> w.actuator_events, alerts |-> w.alerts]

C34_ConnectivityDoesNotInfluence ==
    /\ Decisions(twin.w) = Decisions(World)
    /\ last.op \in {"ingest", "control"}
       => twin.status = last.status /\ twin.commands = last.commands

C34_Witness ==
    /\ Ingested /\ last.commands # <<>>
    /\ mqtt_connected # twin.w.mqtt_connected
    /\ Len(published) # Len(twin.w.published)
    /\ actuator_events # <<>> /\ alerts # <<>>
    /\ twin.commands = last.commands

\* C35: an MQTT command whose payload is valid JSON but yields no text action
\* (a JSON value that is not an object, or an object whose `action` is null
\* or not text) is dropped: the handler returns without letting an exception
\* out, and actuator_states, the event log and the published messages stay
\* as they were.
NoTextAction ==
    /\ last.op = "mqtt"
    /\ \/ last.payload.kind = "scalar"
       \/ last.payload.kind = "object" /\ last.payload.action = NoAction

C35_NoTextActionDropped ==
    NoTextAction
    => /\ last.status \in {"error", "ignored"}
       /\ mqtt_loop = "running"
       /\ actuator_states = [fan |-> last.pre.fan, light |-> last.pre.light]
       /\ NewEvents = <<>>
       /\ NewPublished = <<>>

C35_Witness ==
    /\ NoTextAction /\ last.payload = Object(NoAction, "on")
    /\ last.actuator = "fan" /\ last.status = "error"
    /\ last.db /\ last.conn
    /\ ~actuator_states.fan
    /\ prev.op = "mqtt" /\ prev.payload.kind = "scalar" /\ prev.status = "error"

\* C36: every persisted actuator event and every message published on
\* smarthome/actuators/fan or smarthome/actuators/light has an action (state)
\* of exactly "on" or "off", whatever action string execute_command was
\* given.
ActuatorTopics == {"smarthome/actuators/" \o a : a \in Actuators}

C36_ActionsAreOnOrOff ==
    /\ \A i \in DOMAIN actuator_events : actuator_events[i].action \in {"on", "off"}
    /\ \A i \in DOMAIN published :
          published[i].topic \in ActuatorTopics => published[i].state \in {"on", "off"}

\* C37: mqtt_connected is true exactly from a connect callback with rc == 0
\* until the next disconnect callback or refused connect; while it is true
\* the subscription to smarthome/commands/# made by that connect callback is
\* in place, so no command is handled before it; and no message is handed to
\* the MQTT client while the flag is false.
C37_FlagFollowsCallbacks ==
    mqtt_connected <=> session.callback = "connected"

C37_SubscribedOnConnect ==
    session.callback = "connected" => session.subscribed

C37_FlagTracksLifeCycle ==
    /\ [](C37_FlagFollowsCallbacks /\ C37_SubscribedOnConnect)
    /\ [][Len(published') > Len(published) => mqtt_connected]_vars

\* C38: no storage operation is issued after the storage handle was closed:
\* among the calls cleanup makes, every read or write of the database comes
\* before DatabaseManager.close.
StorageCalls == {"get_statistics"}

C38_NoStorageAfterClose ==
    \A i, j \in DOMAIN teardown :
        (teardown[i] = "close" /\ teardown[j] \in StorageCalls) => j < i
====
